---------------------------- MODULE Spec2Model ----------------------------
(***************************************************************************)
(* A model of atlasapi/cloud_backup.py: the CloudBackupSnapshot record,    *)
(* its constructor, and the parser CloudBackupSnapshot.from_dict, executed *)
(* statement by statement by one or more callers.                          *)
(*                                                                         *)
(* Python values are records [t |-> <type name>, v |-> <payload>], the     *)
(* payload a sequence of one-character strings for a str whose characters  *)
(* matter (the values that are upper-cased), and a sequence holding the    *)
(* text as a single token otherwise.  A mapping (dict) is a function whose *)
(* DOMAIN is the set of keys it holds.                                     *)
(***************************************************************************)
EXTENDS Naturals, Sequences, FiniteSets

VARIABLES
    callers,   \* the call sites of this run
    data0,     \* data0[c]: the mapping as c's owner holds it before the calls
    data,      \* data[c]: the mapping object handed to from_dict (data_dict)
    pc,        \* pc[c]: "idle", a statement of from_dict, "returned", "raised"
    loc,       \* loc[c]: the local variables of c's running from_dict call
    result,    \* result[c]: what c's current call has produced
    prev,      \* prev[c]: what c's previous call produced
    ncalls,    \* ncalls[c]: the number of calls c has started
    trace,     \* trace[c]: the statements c's current call has executed
    nows,      \* nows[c]: the dates dateutil read from the clock in this call
    log,       \* the records handed to logger 'Atlas_cloud_backup'
    today,     \* the current date of the host
    kwargs,    \* the keyword arguments of the last direct construction
    obj        \* the object the last direct construction built

vars == <<callers, data0, data, pc, loc, result, prev, ncalls, trace, nows,
          log, today, kwargs, obj>>

(***************************************************************************)
(* Bounds of the model.                                                    *)
(***************************************************************************)
\* how many keys of a base mapping an input may differ in
MaxEdits == 2
\* how many times one caller calls from_dict
MaxCalls == 2

(***************************************************************************)
(* Python values.                                                          *)
(***************************************************************************)
None == [t |-> "NoneType", v |-> <<>>]
Str(s) == [t |-> "str", v |-> s]
Int(s) == [t |-> "int", v |-> s]
List(s) == [t |-> "list", v |-> s]
DateTime(date, time) == [t |-> "datetime", v |-> <<date, time>>]
Member(enum, name) == [t |-> enum, v |-> name]

LowerCase == <<"a","b","c","d","e","f","g","h","i","j","k","l","m",
               "n","o","p","q","r","s","t","u","v","w","x","y","z">>
UpperCase == <<"A","B","C","D","E","F","G","H","I","J","K","L","M",
               "N","O","P","Q","R","S","T","U","V","W","X","Y","Z">>

\* str.upper() on one character: a lower-case letter becomes its capital,
\* every other character stays.
UpperChar(ch) ==
    IF \E i \in DOMAIN LowerCase : LowerCase[i] = ch
    THEN UpperCase[CHOOSE i \in DOMAIN LowerCase : LowerCase[i] = ch]
    ELSE ch

\* str.upper()
Upper(s) == [i \in DOMAIN s |-> UpperChar(s[i])]

\* dict.get(key): the value, or None when the key is missing
Get(d, k) == IF k \in DOMAIN d THEN d[k] ELSE None

\* dict.pop(key): what a destructive read would leave behind
AfterPop(d, k) == [x \in DOMAIN d \ {k} |-> d[x]]

\* the mapping after data_dict.get(key): get() leaves the mapping as it is
AfterGet(d, k) == d

\* list and dict values cannot be dictionary keys
Hashable(x) == x.t \notin {"list", "dict"}

\* the outcome of evaluating an expression: a value, or an exception
Ok(x) == [exc |-> "none", val |-> x]
Raises(e) == [exc |-> e, val |-> None]

(***************************************************************************)
(* The enumerations.  Enum[name] looks the name up in the member map:      *)
(* KeyError for a hashable key that is no member name, TypeError for an    *)
(* unhashable key.                                                         *)
(***************************************************************************)
SnapshotTypeNames ==
    { <<"O","N","D","E","M","A","N","D">>,
      <<"S","C","H","E","D","U","L","E","D">> }

SnapshotStatusNames ==
    { <<"Q","U","E","U","E","D">>,
      <<"I","N","P","R","O","G","R","E","S","S">>,
      <<"C","O","M","P","L","E","T","E","D">>,
      <<"F","A","I","L","E","D">> }

\* atlasapi.lib.ProviderName
ProviderNames ==
    { <<"A","W","S">>, <<"G","C","P">>, <<"A","Z","U","R","E">>,
      <<"T","E","N","A","N","T">> }

\* atlasapi.lib.ClusterType
ClusterTypeNames ==
    { <<"R","E","P","L","I","C","A","S","E","T">>,
      <<"S","H","A","R","D","E","D","C","L","U","S","T","E","R">> }

EnumGetItem(enum, names, x) ==
    IF ~Hashable(x) THEN Raises("TypeError")
    ELSE IF x.t = "str" /\ x.v \in names THEN Ok(Member(enum, x.v))
    ELSE Raises("KeyError")

(***************************************************************************)
(* dateutil.parser.parse, the date parser try_date calls.  It first reads  *)
(* the clock (the default date that completes a string naming no day),     *)
(* then raises TypeError for an input that is no string, ParserError (a    *)
(* ValueError) for a string that holds no date, and OverflowError for a    *)
(* date whose year does not fit a C integer; otherwise it returns the      *)
(* timestamp.  The strings below are the date strings of the model.        *)
(***************************************************************************)
FullTimestamps ==
    { [text |-> <<"2021-07-31T02:02:25Z">>, date |-> "2021-07-31", time |-> "02:02:25+00:00"],
      [text |-> <<"2021-08-28T02:03:22Z">>, date |-> "2021-08-28", time |-> "02:03:22+00:00"] }

TimeOnlyStrings == { [text |-> <<"02:02:25">>, time |-> "02:02:25"] }

OverflowStrings == { <<"99999999999-01-01">> }

parse(x, now) ==
    IF x.t # "str" THEN Raises("TypeError")
    ELSE IF \E f \in FullTimestamps : f.text = x.v
    THEN LET f == CHOOSE g \in FullTimestamps : g.text = x.v
         IN  Ok(DateTime(f.date, f.time))
    ELSE IF \E f \in TimeOnlyStrings : f.text = x.v
    THEN LET f == CHOOSE g \in TimeOnlyStrings : g.text = x.v
         IN  Ok(DateTime(now, f.time))
    ELSE IF x.v \in OverflowStrings THEN Raises("OverflowError")
    ELSE Raises("ValueError")

\* the exceptions try_date catches
Caught == {"ValueError", "TypeError", "AttributeError"}

\* try_date: the parsed timestamp; None and one debug log entry when parse
\* raises one of the caught exceptions; any other exception propagates.
try_date(str_in, now) ==
    LET r == parse(str_in, now)
    IN  IF r.exc \in Caught
        THEN [exc |-> "none", val |-> None, logged |-> TRUE]
        ELSE [exc |-> r.exc, val |-> r.val, logged |-> FALSE]

\* logger.debug(f'Could not parse a date from : {str_in}')
LogEntry(c, n, str_in) == [by |-> c, call |-> n, level |-> "DEBUG", arg |-> str_in]

(***************************************************************************)
(* The statements of from_dict that can raise.                             *)
(***************************************************************************)
TENANT == Member("ProviderName", <<"T","E","N","A","N","T">>)

\* try: ProviderName[data_dict.get('cloudProvider')]  except KeyError: TENANT
CloudProviderStmt(d) ==
    LET r == EnumGetItem("ProviderName", ProviderNames, Get(d, "cloudProvider"))
    IN  IF r.exc = "KeyError" THEN Ok(TENANT) ELSE r

\* Enum[data_dict.get(key).upper()]: AttributeError when the value has no
\* upper() (None, a number, a list), else the lookup of the upper-cased name
UpperLookup(enum, names, x) ==
    IF x.t # "str" THEN Raises("AttributeError")
    ELSE EnumGetItem(enum, names, Str(Upper(x.v)))

SnapshotTypeStmt(d) ==
    UpperLookup("SnapshotType", SnapshotTypeNames, Get(d, "snapshotType"))

ClusterTypeStmt(d) ==
    UpperLookup("ClusterType", ClusterTypeNames, Get(d, "type"))

\* a status lookup with the fallback the cloudProvider lookup has
SnapshotStatusStmtDefaulting(d) ==
    LET r == UpperLookup("SnapshotStatus", SnapshotStatusNames, Get(d, "status"))
    IN  IF r.exc # "none"
        THEN Ok(Member("SnapshotStatus", <<"Q","U","E","U","E","D">>))
        ELSE r

SnapshotStatusStmt(d) ==
    UpperLookup("SnapshotStatus", SnapshotStatusNames, Get(d, "status"))

(***************************************************************************)
(* The record.                                                             *)
(***************************************************************************)
Fields ==
    {"id", "cloud_provider", "created_at", "description", "expires_at",
     "links", "masterkey_uuid", "members", "mongod_version",
     "replica_set_name", "snapshot_ids", "snapshot_type", "status",
     "storage_size_bytes", "type"}

\* a keyword argument of __init__, None by default
Arg(kw, name) == IF name \in DOMAIN kw THEN kw[name] ELSE None

\* an __init__ that crosses two assignments
CloudBackupSnapshotInitCrossed(kw) ==
    [type               |-> Arg(kw, "type"),
     storage_size_bytes |-> Arg(kw, "storage_size_bytes"),
     status             |-> Arg(kw, "status"),
     snapshot_type      |-> Arg(kw, "snapshot_type"),
     snapshot_ids       |-> Arg(kw, "snapshot_ids"),
     replica_set_name   |-> Arg(kw, "replica_set_name"),
     mongod_version     |-> Arg(kw, "mongod_version"),
     members            |-> Arg(kw, "members"),
     masterkey_uuid     |-> Arg(kw, "masterkey_uuid"),
     links              |-> Arg(kw, "links"),
     expires_at         |-> Arg(kw, "created_at"),
     description        |-> Arg(kw, "description"),
     created_at         |-> Arg(kw, "expires_at"),
     cloud_provider     |-> Arg(kw, "cloud_provider"),
     id                 |-> Arg(kw, "id")]

\* CloudBackupSnapshot.__init__: fifteen assignments self.<name> = <name>
CloudBackupSnapshotInit(kw) ==
    [type               |-> Arg(kw, "type"),
     storage_size_bytes |-> Arg(kw, "storage_size_bytes"),
     status             |-> Arg(kw, "status"),
     snapshot_type      |-> Arg(kw, "snapshot_type"),
     snapshot_ids       |-> Arg(kw, "snapshot_ids"),
     replica_set_name   |-> Arg(kw, "replica_set_name"),
     mongod_version     |-> Arg(kw, "mongod_version"),
     members            |-> Arg(kw, "members"),
     masterkey_uuid     |-> Arg(kw, "masterkey_uuid"),
     links              |-> Arg(kw, "links"),
     expires_at         |-> Arg(kw, "expires_at"),
     description        |-> Arg(kw, "description"),
     created_at         |-> Arg(kw, "created_at"),
     cloud_provider     |-> Arg(kw, "cloud_provider"),
     id                 |-> Arg(kw, "id")]

\* the local variables of from_dict, unbound (None) before their assignment
BlankLocals ==
    [id |-> None, cloud_provider |-> None, created_at |-> None,
     expires_at |-> None, description |-> None, snapshot_type |-> None,
     cluster_type |-> None, snapshot_status |-> None,
     storage_size_bytes |-> None, replica_set_name |-> None, links |-> None,
     masterkey |-> None, members |-> None, mongod_version |-> None,
     snapshot_ids |-> None]

\* a return statement that crosses two pass-through arguments
FromDictKwargsCrossed(l) ==
    [id                 |-> l.id,
     cloud_provider     |-> l.cloud_provider,
     created_at         |-> l.created_at,
     expires_at         |-> l.expires_at,
     description        |-> l.description,
     snapshot_type      |-> l.snapshot_type,
     type               |-> l.cluster_type,
     status             |-> l.snapshot_status,
     storage_size_bytes |-> l.storage_size_bytes,
     replica_set_name   |-> l.mongod_version,
     links              |-> l.links,
     masterkey_uuid     |-> l.masterkey,
     members            |-> l.members,
     mongod_version     |-> l.replica_set_name,
     snapshot_ids       |-> l.snapshot_ids]

\* the keyword arguments of  return cls(id=id, ..., snapshot_ids=snapshot_ids)
FromDictKwargs(l) ==
    [id                 |-> l.id,
     cloud_provider     |-> l.cloud_provider,
     created_at         |-> l.created_at,
     expires_at         |-> l.expires_at,
     description        |-> l.description,
     snapshot_type      |-> l.snapshot_type,
     type               |-> l.cluster_type,
     status             |-> l.snapshot_status,
     storage_size_bytes |-> l.storage_size_bytes,
     replica_set_name   |-> l.replica_set_name,
     links              |-> l.links,
     masterkey_uuid     |-> l.masterkey,
     members            |-> l.members,
     mongod_version     |-> l.mongod_version,
     snapshot_ids       |-> l.snapshot_ids]

\* what a call has produced: nothing yet, a record, or an exception raised
\* by the statement `at`
NoRecord == CloudBackupSnapshotInit(<<>>)
NoOutcome == [kind |-> "none", rec |-> NoRecord, exc |-> "none", at |-> "none"]
Returned(r) == [kind |-> "record", rec |-> r, exc |-> "none", at |-> "none"]
Raised(e, s) == [kind |-> "error", rec |-> NoRecord, exc |-> e, at |-> s]

(***************************************************************************)
(* The input mappings.  TestData is the payload embedded in the module;    *)
(* an input is a base mapping with at most MaxEdits keys removed or set to *)
(* another value.                                                          *)
(***************************************************************************)
Keys ==
    {"id", "cloudProvider", "createdAt", "expiresAt", "description",
     "snapshotType", "type", "status", "storageSizeBytes", "replicaSetName",
     "links", "masterKeyUUID", "members", "mongodVersion", "snapshotIds"}

test_data ==
    [cloudProvider    |-> Str(<<"A","W","S">>),
     createdAt        |-> Str(<<"2021-07-31T02:02:25Z">>),
     expiresAt        |-> Str(<<"2021-08-28T02:03:22Z">>),
     id               |-> Str(<<"6104a8c6c1b4ef7788b5d8f0">>),
     links            |-> List(<<"self", "http://cloud.mongodb.com/cluster">>),
     mongodVersion    |-> Str(<<"4.2.15">>),
     replicaSetName   |-> Str(<<"pyAtlasTestCluster">>),
     snapshotType     |-> Str(<<"s","c","h","e","d","u","l","e","d">>),
     status           |-> Str(<<"c","o","m","p","l","e","t","e","d">>),
     storageSizeBytes |-> Int(<<"14380134400">>),
     type             |-> Str(<<"r","e","p","l","i","c","a","S","e","t">>)]

EmptyMapping == [k \in {} |-> None]

\* the mark of an edit that removes the key
Absent == [t |-> "absent", v |-> <<>>]

Alternatives(k) ==
    CASE k = "cloudProvider" ->
           { Absent, None, Int(<<"5">>), List(<<"AWS">>),
             Str(<<"a","w","s">>),
             Str(<<"T","E","N","A","N","T">>), Str(<<"B","O","G","U","S">>) }
      [] k = "createdAt" ->
           { Absent, None, Int(<<"1627696945">>), Str(<<"garbage">>),
             Str(<<"02:02:25">>), Str(<<"99999999999-01-01">>) }
      [] k = "expiresAt" ->
           { Absent, None, Str(<<"not-a-date">>),
             Str(<<"02:02:25">>), Str(<<"99999999999-01-01">>) }
      [] k = "snapshotType" ->
           { Absent, None, Int(<<"1">>),
             Str(<<"o","n","D","e","m","a","n","d">>),
             Str(<<"O","N","D","E","M","A","N","D">>),
             Str(<<"o","n","_","d","e","m","a","n","d">>),
             Str(<<"b","o","g","u","s">>) }
      [] k = "type" ->
           { Absent, None,
             Str(<<"s","h","a","r","d","e","d","C","l","u","s","t","e","r">>),
             Str(<<"R","E","P","L","I","C","A","S","E","T">>),
             Str(<<"r","e","p","l","i","c","a","_","s","e","t">>) }
      [] k = "status" ->
           { Absent, None,
             Str(<<"q","u","e","u","e","d">>),
             Str(<<"i","n","P","r","o","g","r","e","s","s">>),
             Str(<<"C","O","M","P","L","E","T","E","D">>),
             Str(<<"i","n"," ","p","r","o","g","r","e","s","s">>) }
      [] k = "id" -> { Absent, None }
      [] k = "description" -> { None, Str(<<"nightly">>) }
      [] k = "storageSizeBytes" -> { Absent }
      [] k = "replicaSetName" -> { Absent, None }
      [] k = "links" -> { Absent }
      [] k = "masterKeyUUID" -> { Str(<<"kms-key-1">>) }
      [] k = "members" -> { None, List(<<"shard0", "shard1", "config">>) }
      [] k = "mongodVersion" -> { Absent }
      [] k = "snapshotIds" -> { List(<<"id0", "id1", "id2">>) }

Edit(d, k, a) ==
    IF a = Absent
    THEN [x \in DOMAIN d \ {k} |-> d[x]]
    ELSE [x \in DOMAIN d \cup {k} |-> IF x = k THEN a ELSE d[x]]

RECURSIVE Inputs(_)
Inputs(n) ==
    IF n = 0 THEN {test_data, EmptyMapping}
    ELSE LET S == Inputs(n - 1)
         IN  S \cup { Edit(d, k, a) : <<d, k, a>> \in
                        { <<d, k, a>> \in S \X Keys \X UNION {Alternatives(k) : k \in Keys}
                            : a \in Alternatives(k) } }

\* the inputs of the runs with several callers
FewInputs ==
    { test_data,
      Edit(test_data, "createdAt", Str(<<"garbage">>)),
      Edit(test_data, "createdAt", Str(<<"02:02:25">>)),
      Edit(test_data, "expiresAt", None),
      Edit(test_data, "status", Absent),
      Edit(test_data, "cloudProvider", List(<<"AWS">>)) }

(***************************************************************************)
(* The statements of from_dict in the order of the source.                 *)
(***************************************************************************)
StepOrder ==
    <<"id", "cloudProvider", "createdAt", "expiresAt", "description",
      "snapshotType", "type", "status", "passthrough", "construct">>

\* an order that looks the required fields up before it parses the dates
StepOrderFatalFirst ==
    <<"id", "cloudProvider", "snapshotType", "type", "status", "createdAt",
      "expiresAt", "description", "passthrough", "construct">>

Following(order, s) ==
    LET i == CHOOSE j \in DOMAIN order : order[j] = s
    IN  IF i < Len(order) THEN order[i + 1] ELSE "returned"

NextStepFatalFirst(s) == Following(StepOrderFatalFirst, s)

\* the statement that runs after statement s
NextStep(s) == Following(StepOrder, s)

Days == <<"2026-11-05", "2026-11-06">>

(***************************************************************************)
(* The state machine.                                                      *)
(***************************************************************************)
\* statement s of c's call completes: the locals become l
Completes(c, s, l) ==
    /\ pc' = [pc EXCEPT ![c] = NextStep(s)]
    /\ loc' = [loc EXCEPT ![c] = l]
    /\ trace' = [trace EXCEPT ![c] = Append(@, s)]
    /\ UNCHANGED result

\* statement s of c's call raises e, which leaves from_dict uncaught
Aborts(c, s, e) ==
    /\ pc' = [pc EXCEPT ![c] = "raised"]
    /\ loc' = [loc EXCEPT ![c] = BlankLocals]
    /\ trace' = [trace EXCEPT ![c] = Append(@, s)]
    /\ result' = [result EXCEPT ![c] = Raised(e, s)]

\* c calls CloudBackupSnapshot.from_dict(data[c])
Call(c) ==
    /\ pc[c] \in {"idle", "returned", "raised"}
    /\ ncalls[c] < MaxCalls
    /\ pc' = [pc EXCEPT ![c] = StepOrder[1]]
    /\ ncalls' = [ncalls EXCEPT ![c] = @ + 1]
    /\ prev' = [prev EXCEPT ![c] = result[c]]
    /\ result' = [result EXCEPT ![c] = NoOutcome]
    /\ loc' = [loc EXCEPT ![c] = BlankLocals]
    /\ trace' = [trace EXCEPT ![c] = <<>>]
    /\ nows' = [nows EXCEPT ![c] = <<>>]
    /\ UNCHANGED <<callers, data0, data, log, today, kwargs, obj>>

\* id = data_dict.get('id', None)
GetId(c) ==
    /\ pc[c] = "id"
    /\ Completes(c, "id", [loc[c] EXCEPT !.id = Get(data[c], "id")])
    /\ data' = [data EXCEPT ![c] = AfterGet(@, "id")]
    /\ UNCHANGED <<callers, data0, prev, ncalls, nows, log, today, kwargs, obj>>

\* try: cloud_provider = ProviderName[...]  except KeyError: ... TENANT
LookupCloudProvider(c) ==
    /\ pc[c] = "cloudProvider"
    /\ LET r == CloudProviderStmt(data[c])
       IN  IF r.exc = "none"
           THEN Completes(c, "cloudProvider", [loc[c] EXCEPT !.cloud_provider = r.val])
           ELSE Aborts(c, "cloudProvider", r.exc)
    /\ data' = [data EXCEPT ![c] = AfterGet(@, "cloudProvider")]
    /\ UNCHANGED <<callers, data0, prev, ncalls, nows, log, today, kwargs, obj>>

\* created_at = try_date(data_dict.get('createdAt'))
ParseCreatedAt(c) ==
    /\ pc[c] = "createdAt"
    /\ LET x == Get(data[c], "createdAt")
           r == try_date(x, today)
       IN  /\ IF r.exc = "none"
              THEN Completes(c, "createdAt", [loc[c] EXCEPT !.created_at = r.val])
              ELSE Aborts(c, "createdAt", r.exc)
           /\ log' = IF r.logged THEN Append(log, LogEntry(c, ncalls[c], x)) ELSE log
    /\ nows' = [nows EXCEPT ![c] = Append(@, today)]
    /\ data' = [data EXCEPT ![c] = AfterGet(@, "createdAt")]
    /\ UNCHANGED <<callers, data0, prev, ncalls, today, kwargs, obj>>

\* expires_at = try_date(data_dict.get('expiresAt'))
ParseExpiresAt(c) ==
    /\ pc[c] = "expiresAt"
    /\ LET x == Get(data[c], "expiresAt")
           r == try_date(x, today)
       IN  /\ IF r.exc = "none"
              THEN Completes(c, "expiresAt", [loc[c] EXCEPT !.expires_at = r.val])
              ELSE Aborts(c, "expiresAt", r.exc)
           /\ log' = IF r.logged THEN Append(log, LogEntry(c, ncalls[c], x)) ELSE log
    /\ nows' = [nows EXCEPT ![c] = Append(@, today)]
    /\ data' = [data EXCEPT ![c] = AfterGet(@, "expiresAt")]
    /\ UNCHANGED <<callers, data0, prev, ncalls, today, kwargs, obj>>

\* description = data_dict.get('description')
GetDescription(c) ==
    /\ pc[c] = "description"
    /\ Completes(c, "description",
                 [loc[c] EXCEPT !.description = Get(data[c], "description")])
    /\ data' = [data EXCEPT ![c] = AfterGet(@, "description")]
    /\ UNCHANGED <<callers, data0, prev, ncalls, nows, log, today, kwargs, obj>>

\* snapshot_type = SnapshotType[data_dict.get('snapshotType').upper()]
LookupSnapshotType(c) ==
    /\ pc[c] = "snapshotType"
    /\ LET r == SnapshotTypeStmt(data[c])
       IN  IF r.exc = "none"
           THEN Completes(c, "snapshotType", [loc[c] EXCEPT !.snapshot_type = r.val])
           ELSE Aborts(c, "snapshotType", r.exc)
    /\ data' = [data EXCEPT ![c] = AfterGet(@, "snapshotType")]
    /\ UNCHANGED <<callers, data0, prev, ncalls, nows, log, today, kwargs, obj>>

\* cluster_type = ClusterType[data_dict.get('type').upper()]
LookupClusterType(c) ==
    /\ pc[c] = "type"
    /\ LET r == ClusterTypeStmt(data[c])
       IN  IF r.exc = "none"
           THEN Completes(c, "type", [loc[c] EXCEPT !.cluster_type = r.val])
           ELSE Aborts(c, "type", r.exc)
    /\ data' = [data EXCEPT ![c] = AfterGet(@, "type")]
    /\ UNCHANGED <<callers, data0, prev, ncalls, nows, log, today, kwargs, obj>>

\* snapshot_status = SnapshotStatus[data_dict.get('status').upper()]
LookupSnapshotStatus(c) ==
    /\ pc[c] = "status"
    /\ LET r == SnapshotStatusStmt(data[c])
       IN  IF r.exc = "none"
           THEN Completes(c, "status", [loc[c] EXCEPT !.snapshot_status = r.val])
           ELSE Aborts(c, "status", r.exc)
    /\ data' = [data EXCEPT ![c] = AfterGet(@, "status")]
    /\ UNCHANGED <<callers, data0, prev, ncalls, nows, log, today, kwargs, obj>>

\* the seven pass-through reads, storage_size_bytes = ... to snapshot_ids = ...
GetPassThrough(c) ==
    /\ pc[c] = "passthrough"
    /\ Completes(c, "passthrough",
                 [loc[c] EXCEPT
                    !.storage_size_bytes = Get(data[c], "storageSizeBytes"),
                    !.replica_set_name = Get(data[c], "replicaSetName"),
                    !.links = Get(data[c], "links"),
                    !.masterkey = Get(data[c], "masterKeyUUID"),
                    !.members = Get(data[c], "members"),
                    !.mongod_version = Get(data[c], "mongodVersion"),
                    !.snapshot_ids = Get(data[c], "snapshotIds")])
    /\ data' = [data EXCEPT ![c] =
                  AfterGet(AfterGet(AfterGet(AfterGet(AfterGet(AfterGet(AfterGet(@,
                    "storageSizeBytes"), "replicaSetName"), "links"),
                    "masterKeyUUID"), "members"), "mongodVersion"), "snapshotIds")]
    /\ UNCHANGED <<callers, data0, prev, ncalls, nows, log, today, kwargs, obj>>

\* return cls(id=id, ..., snapshot_ids=snapshot_ids)
Construct(c) ==
    /\ pc[c] = "construct"
    /\ pc' = [pc EXCEPT ![c] = NextStep("construct")]
    /\ trace' = [trace EXCEPT ![c] = Append(@, "construct")]
    /\ result' = [result EXCEPT ![c] =
                    Returned(CloudBackupSnapshotInit(FromDictKwargs(loc[c])))]
    /\ loc' = [loc EXCEPT ![c] = BlankLocals]
    /\ UNCHANGED <<callers, data0, data, prev, ncalls, nows, log, today, kwargs, obj>>

\* midnight passes on the host
Tick ==
    /\ today = Days[1]
    /\ today' = Days[2]
    /\ UNCHANGED <<callers, data0, data, pc, loc, result, prev, ncalls, trace,
                   nows, log, kwargs, obj>>

InitCommon ==
    /\ data = data0
    /\ pc = [c \in callers |-> "idle"]
    /\ loc = [c \in callers |-> BlankLocals]
    /\ result = [c \in callers |-> NoOutcome]
    /\ prev = [c \in callers |-> NoOutcome]
    /\ ncalls = [c \in callers |-> 0]
    /\ trace = [c \in callers |-> <<>>]
    /\ nows = [c \in callers |-> <<>>]
    /\ log = <<>>
    /\ today = Days[1]
    /\ kwargs = EmptyMapping
    /\ obj = {}

\* one caller, every input mapping
Init ==
    /\ callers = {"a"}
    /\ data0 \in [callers -> Inputs(MaxEdits)]
    /\ InitCommon

Next ==
    \/ \E c \in callers : Call(c)
    \/ \E c \in callers : GetId(c)
    \/ \E c \in callers : LookupCloudProvider(c)
    \/ \E c \in callers : ParseCreatedAt(c)
    \/ \E c \in callers : ParseExpiresAt(c)
    \/ \E c \in callers : GetDescription(c)
    \/ \E c \in callers : LookupSnapshotType(c)
    \/ \E c \in callers : LookupClusterType(c)
    \/ \E c \in callers : LookupSnapshotStatus(c)
    \/ \E c \in callers : GetPassThrough(c)
    \/ \E c \in callers : Construct(c)
    \/ Tick

Spec == Init /\ [][Next]_vars

\* two independent callers, interleaved statement by statement
InitShared ==
    /\ callers = {"a", "b"}
    /\ data0 \in [callers -> FewInputs]
    /\ InitCommon

SpecShared == InitShared /\ [][Next]_vars

(***************************************************************************)
(* Direct construction: CloudBackupSnapshot(name=value, ...).              *)
(***************************************************************************)
\* a value for the argument `name`: of its own, the same int for every
\* argument, or an explicit None
ArgValue(variant, name) ==
    CASE variant = "own" -> Str(<<name>>)
      [] variant = "int" -> Int(<<"7">>)
      [] variant = "none" -> None

KwargsUniverse ==
    { [name \in S |-> ArgValue(variant, name)] :
        <<S, variant>> \in (SUBSET Fields) \X {"own", "int", "none"} }

DirectConstruct(kw) ==
    /\ obj = {}
    /\ kwargs' = kw
    /\ obj' = {CloudBackupSnapshotInit(kw)}
    /\ UNCHANGED <<callers, data0, data, pc, loc, result, prev, ncalls, trace,
                   nows, log, today>>

InitCtor ==
    /\ callers = {}
    /\ data0 = [c \in callers |-> EmptyMapping]
    /\ InitCommon

NextCtor == obj = {} /\ \E kw \in KwargsUniverse : DirectConstruct(kw)

SpecCtor == InitCtor /\ [][NextCtor]_vars

\* from_dict run on its own, start to end, the clock reading n1 when
\* createdAt is parsed and n2 when expiresAt is
FromDictAlone(d, n1, n2) ==
    LET cp == CloudProviderStmt(d)
        ca == try_date(Get(d, "createdAt"), n1)
        ea == try_date(Get(d, "expiresAt"), n2)
        st == SnapshotTypeStmt(d)
        ct == ClusterTypeStmt(d)
        ss == SnapshotStatusStmt(d)
    IN  IF cp.exc # "none" THEN Raised(cp.exc, "cloudProvider")
        ELSE IF ca.exc # "none" THEN Raised(ca.exc, "createdAt")
        ELSE IF ea.exc # "none" THEN Raised(ea.exc, "expiresAt")
        ELSE IF st.exc # "none" THEN Raised(st.exc, "snapshotType")
        ELSE IF ct.exc # "none" THEN Raised(ct.exc, "type")
        ELSE IF ss.exc # "none" THEN Raised(ss.exc, "status")
        ELSE Returned(CloudBackupSnapshotInit(
               [id                 |-> Get(d, "id"),
                cloud_provider     |-> cp.val,
                created_at         |-> ca.val,
                expires_at         |-> ea.val,
                description        |-> Get(d, "description"),
                snapshot_type      |-> st.val,
                type               |-> ct.val,
                status             |-> ss.val,
                storage_size_bytes |-> Get(d, "storageSizeBytes"),
                replica_set_name   |-> Get(d, "replicaSetName"),
                links              |-> Get(d, "links"),
                masterkey_uuid     |-> Get(d, "masterKeyUUID"),
                members            |-> Get(d, "members"),
                mongod_version     |-> Get(d, "mongodVersion"),
                snapshot_ids       |-> Get(d, "snapshotIds")]))

(***************************************************************************)
(* The vocabulary of the properties.                                       *)
(***************************************************************************)
Finished(c) == pc[c] \in {"returned", "raised"}

RequiredKeys == {"snapshotType", "type", "status"}
DateKeys == {"createdAt", "expiresAt"}

NamesOf(k) ==
    CASE k = "snapshotType" -> SnapshotTypeNames
      [] k = "type" -> ClusterTypeNames
      [] k = "status" -> SnapshotStatusNames

\* key k is missing, null, or a string that upper-cased names no member
MissingNullOrUnknown(d, k) ==
    \/ k \notin DOMAIN d
    \/ d[k] = None
    \/ d[k].t = "str" /\ Upper(d[k].v) \notin NamesOf(k)

\* key k holds a string that upper-cased names a member
Valid(d, k) == k \in DOMAIN d /\ d[k].t = "str" /\ Upper(d[k].v) \in NamesOf(k)

ValidThree(d) == \A k \in RequiredKeys : Valid(d, k)

\* the date parser accepts x
ParsesAsDate(x) == parse(x, today).exc = "none"

\* the log entries c's current call has emitted
Emitted(c) == { i \in DOMAIN log : log[i].by = c /\ log[i].call = ncalls[c] }

\* statement s has run in c's current call
Ran(c, s) == \E i \in DOMAIN trace[c] : trace[c][i] = s

IsPrefix(s, t) == Len(s) <= Len(t) /\ \A i \in DOMAIN s : s[i] = t[i]

(***************************************************************************)
(* C1.  When snapshotType, type or status is missing, null, or a string    *)
(* that upper-cased names no member of its enumeration, a from_dict call   *)
(* never gets past the three lookups, never returns a record, and can only *)
(* end by raising, whatever the other keys hold.                           *)
(***************************************************************************)
C1_RequiredFieldAborts ==
    \A c \in callers :
        (\E k \in RequiredKeys : MissingNullOrUnknown(data0[c], k)) =>
            /\ pc[c] \notin {"passthrough", "construct", "returned"}
            /\ result[c].kind # "record"
            /\ prev[c].kind # "record"
            /\ Finished(c) => pc[c] = "raised" /\ result[c].kind = "error"

C1_Witness ==
    \E c \in callers :
        /\ "status" \notin DOMAIN data0[c]
        /\ Valid(data0[c], "snapshotType") /\ Valid(data0[c], "type")
        /\ pc[c] = "raised"
        /\ result[c] = Raised("AttributeError", "status")

(***************************************************************************)
(* C2.  With valid snapshotType, type and status, from_dict returns a      *)
(* record; its cloud_provider is TENANT when cloudProvider is absent, null *)
(* or a string that is not exactly a member name, and the named member     *)
(* when it is; the cloudProvider lookup never makes the parse fail.        *)
(***************************************************************************)
C2_CloudProviderDefaults ==
    \A c \in callers :
        ValidThree(data0[c]) =>
            LET x == Get(data0[c], "cloudProvider")
            IN  /\ ~(pc[c] = "raised" /\ result[c].at = "cloudProvider")
                /\ Finished(c) => result[c].kind = "record"
                /\ (result[c].kind = "record" /\ x.t \in {"NoneType", "str"}) =>
                      result[c].rec.cloud_provider =
                          IF x.t = "str" /\ x.v \in ProviderNames
                          THEN Member("ProviderName", x.v)
                          ELSE TENANT

(***************************************************************************)
(* C3.  With valid snapshotType, type and status, a createdAt or expiresAt *)
(* that does not parse (malformed, of the wrong type, missing) raises no   *)
(* error: once it has been read the call does not raise, and the record    *)
(* holds null in its field; a value that parses is stored as the           *)
(* timestamp; try_date never raises.                                       *)
(***************************************************************************)
C3_DatesNeverRaise ==
    \A c \in callers :
        /\ ~(pc[c] = "raised" /\ result[c].at \in DateKeys)
        /\ ValidThree(data0[c]) =>
             /\ \A k \in DateKeys :
                   (Ran(c, k) /\ ~ParsesAsDate(Get(data0[c], k))) => pc[c] # "raised"
             /\ result[c].kind = "record" =>
                   LET ca == Get(data0[c], "createdAt")
                       ea == Get(data0[c], "expiresAt")
                   IN  /\ result[c].rec.created_at =
                            IF ParsesAsDate(ca) THEN parse(ca, nows[c][1]).val ELSE None
                       /\ result[c].rec.expires_at =
                            IF ParsesAsDate(ea) THEN parse(ea, nows[c][2]).val ELSE None

(***************************************************************************)
(* C4.  When snapshotType, type and status are the API's values in any     *)
(* letter-casing, from_dict succeeds and the record holds the members      *)
(* that correspond to them.                                                *)
(***************************************************************************)
ApiValues ==
    [snapshotType |->
        { <<"o","n","D","e","m","a","n","d">>, <<"s","c","h","e","d","u","l","e","d">> },
     status |->
        { <<"q","u","e","u","e","d">>, <<"i","n","P","r","o","g","r","e","s","s">>,
          <<"c","o","m","p","l","e","t","e","d">>, <<"f","a","i","l","e","d">> },
     type |->
        { <<"r","e","p","l","i","c","a","S","e","t">>,
          <<"s","h","a","r","d","e","d","C","l","u","s","t","e","r">> }]

\* d[k] is one of the API's values for k, in some letter-casing
WellFormed(d, k) ==
    /\ k \in DOMAIN d
    /\ d[k].t = "str"
    /\ \E a \in ApiValues[k] : Upper(a) = Upper(d[k].v)

C4_WellFormedParses ==
    \A c \in callers :
        (\A k \in RequiredKeys : WellFormed(data0[c], k)) =>
            /\ pc[c] # "raised"
            /\ result[c].kind = "record" =>
                 /\ result[c].rec.snapshot_type =
                      Member("SnapshotType", Upper(data0[c]["snapshotType"].v))
                 /\ result[c].rec.type =
                      Member("ClusterType", Upper(data0[c]["type"].v))
                 /\ result[c].rec.status =
                      Member("SnapshotStatus", Upper(data0[c]["status"].v))

(***************************************************************************)
(* C5.  In every record from_dict returns, each pass-through field holds   *)
(* the value of its own key, untransformed, and is null exactly when the   *)
(* key is missing or null.                                                 *)
(***************************************************************************)
PassThrough ==
    { <<"id", "id">>, <<"description", "description">>,
      <<"storageSizeBytes", "storage_size_bytes">>,
      <<"replicaSetName", "replica_set_name">>, <<"links", "links">>,
      <<"masterKeyUUID", "masterkey_uuid">>, <<"members", "members">>,
      <<"mongodVersion", "mongod_version">>, <<"snapshotIds", "snapshot_ids">> }

C5_PassThroughVerbatim ==
    \A c \in callers :
        result[c].kind = "record" =>
            \A p \in PassThrough :
                /\ p[1] \in DOMAIN data0[c] => result[c].rec[p[2]] = data0[c][p[1]]
                /\ result[c].rec[p[2]] = None <=>
                       (p[1] \notin DOMAIN data0[c] \/ data0[c][p[1]] = None)

C5_Witness ==
    \E c \in callers :
        /\ pc[c] = "returned"
        /\ "members" \in DOMAIN data0[c] /\ data0[c]["members"] # None
        /\ "mongodVersion" \notin DOMAIN data0[c]
        /\ "replicaSetName" \in DOMAIN data0[c]
        /\ result[c].rec.members = data0[c]["members"]
        /\ result[c].rec.mongod_version = None

(***************************************************************************)
(* C6.  Parsing the same mapping twice, other calls in between, fails      *)
(* both times or yields two records with equal fields.                     *)
(***************************************************************************)
C6_Repeatable ==
    \A c \in callers :
        (Finished(c) /\ prev[c].kind # "none") =>
            \/ prev[c].kind = "error" /\ result[c].kind = "error"
            \/ /\ prev[c].kind = "record" /\ result[c].kind = "record"
               /\ \A f \in Fields : prev[c].rec[f] = result[c].rec[f]

(***************************************************************************)
(* C7.  A from_dict call emits one debug log entry for each date value     *)
(* whose parse it attempted and that failed to parse, and none for a       *)
(* value that parsed.                                                      *)
(***************************************************************************)
C7_OneEntryPerFailure ==
    \A c \in callers :
        Cardinality(Emitted(c)) =
            Cardinality({ k \in DateKeys : Ran(c, k) /\ ~ParsesAsDate(Get(data0[c], k)) })

(***************************************************************************)
(* C8.  from_dict leaves its input mapping as it was, and under any        *)
(* interleaving of the callers' statements a call ends as the same call    *)
(* run on its own ends.                                                    *)
(***************************************************************************)
C8_ReadOnlyAndIndependent ==
    \A c \in callers :
        /\ data[c] = data0[c]
        /\ Finished(c) =>
             result[c] = FromDictAlone(data0[c],
                            IF Len(nows[c]) >= 1 THEN nows[c][1] ELSE today,
                            IF Len(nows[c]) >= 2 THEN nows[c][2] ELSE today)

C8_Witness ==
    \E c, d \in callers :
        /\ c # d
        /\ pc[c] = "returned" /\ ncalls[c] >= 2
        /\ pc[d] = "expiresAt" /\ ncalls[d] >= 2
        /\ \E i, j \in DOMAIN log : i < j /\ log[i].by = d /\ log[j].by = c

(***************************************************************************)
(* C9.  Direct construction stores every supplied argument unchanged in    *)
(* the field of the same name and null in every other field.               *)
(***************************************************************************)
C9_ConstructorStoresVerbatim ==
    \A o \in obj :
        /\ DOMAIN o = Fields
        /\ \A f \in Fields :
              o[f] = IF f \in DOMAIN kwargs THEN kwargs[f] ELSE None

C9_Witness ==
    \E o \in obj :
        /\ DOMAIN kwargs = {"created_at", "status", "links"}
        /\ kwargs["status"] = Int(<<"7">>)
        /\ o.status = Int(<<"7">>)
        /\ o.expires_at = None

(***************************************************************************)
(* C10.  The statements of a call run in the order cloudProvider,          *)
(* createdAt, expiresAt, snapshotType, type, status, construction.  A call *)
(* that aborts on a required field has emitted the log entries of the      *)
(* dates that did not parse; it aborts on the first invalid one of         *)
(* snapshotType, type, status; a record exists only after all three        *)
(* lookups have succeeded.                                                 *)
(***************************************************************************)
C10_StatementOrder ==
    \A c \in callers :
        /\ IsPrefix(trace[c], StepOrder)
        /\ (pc[c] = "raised" /\ result[c].at \in RequiredKeys) =>
              /\ Cardinality(Emitted(c)) =
                   Cardinality({ k \in DateKeys : ~ParsesAsDate(Get(data0[c], k)) })
              /\ ~Valid(data0[c], result[c].at)
              /\ result[c].at = "type" => Valid(data0[c], "snapshotType")
              /\ result[c].at = "status" =>
                    Valid(data0[c], "snapshotType") /\ Valid(data0[c], "type")
        /\ (~Valid(data0[c], "snapshotType") /\ Ran(c, "snapshotType")) =>
              pc[c] = "raised" /\ result[c].at = "snapshotType"
        /\ result[c].kind = "record" =>
              /\ trace[c] = StepOrder
              /\ ValidThree(data0[c])

C10_Witness ==
    \E c \in callers :
        /\ pc[c] = "raised"
        /\ result[c].at = "type"
        /\ ~Valid(data0[c], "status")
        /\ Cardinality(Emitted(c)) = 2

====
